---- MODULE Spec2Model ----
(***************************************************************************)
(* Model of arch/powerpc/kernel/power8-pmu.c: the POWER8 performance       *)
(* counter back end (constraint generation, MMCR synthesis, alternative    *)
(* event lookup, PMC disable hook).                                        *)
(*                                                                         *)
(* A 64-bit word (u64 / unsigned long on ppc64) is modelled as the set of  *)
(* its set bit positions, bit 0 being the least significant one.  Small    *)
(* quantities the code keeps in unsigned int (pmc, unit, cache, cmp, i)    *)
(* are integers.                                                           *)
(***************************************************************************)
EXTENDS Integers, FiniteSets, Sequences, TLC

VARIABLES
    gc_pc, gc_event, maskp, valp, gc_ret,   \* power8_get_constraint call
    event, acc, hwc, mmcr, pc, dis_pmc,     \* scheduler group, compute_mmcr, disable_pmc
    alt_event, alt_flags, alt, num_alt      \* power8_get_alternatives call

vars == <<gc_pc, gc_event, maskp, valp, gc_ret, event, acc, hwc, mmcr, pc, dis_pmc,
          alt_event, alt_flags, alt, num_alt>>

gc_vars == <<gc_pc, gc_event, maskp, valp, gc_ret>>
sched_vars == <<event, acc, hwc, mmcr, pc, dis_pmc>>
alt_vars == <<alt_event, alt_flags, alt, num_alt>>

---------------------------------------------------------------------------
(* Word arithmetic of the C code on bit sets.                              *)

WordBits == 0..63

W0 == {}

AllOnes == WordBits

\* The word holding the non-negative integer v (v < 2^31).
FromInt(v) == {b \in 0..30 : (v \div (2^b)) % 2 = 1}

RECURSIVE ToInt(_)
\* The integer value of a word whose bits all lie below bit 31.
ToInt(w) == IF w = {} THEN 0
            ELSE LET b == CHOOSE x \in w : TRUE IN (2^b) + ToInt(w \ {b})

\* w << s on a 64-bit word: bits shifted past bit 63 are lost.
Shl(w, s) == {b + s : b \in w} \cap WordBits

\* w >> s (logical).
Shr(w, s) == {b - s : b \in {x \in w : x >= s}}

And(a, b) == a \cap b

Or(a, b) == a \cup b

\* ~w
Not(w) == WordBits \ w

\* 1 << n
Bit(n) == {n} \cap WordBits

\* (w >> shift) & mask, the macro-less field extraction the code spells out.
Field(w, shift, mask) == And(Shr(w, shift), mask)

\* a < b on u64 values: the highest bit in which they differ is set in b.
Less(a, b) ==
    LET d == (a \ b) \cup (b \ a)
    IN  d /= {} /\ (CHOOSE x \in d : \A y \in d : y <= x) \in b

---------------------------------------------------------------------------
(* Raw event encoding.                                                     *)

EVENT_THR_CMP_SHIFT == 40
EVENT_THR_CMP_MASK == FromInt(\h3ff)
EVENT_THR_CTL_SHIFT == 32
EVENT_THR_CTL_MASK == FromInt(\hff)
EVENT_THR_SEL_SHIFT == 29
EVENT_THR_SEL_MASK == FromInt(\h7)
EVENT_THRESH_SHIFT == 29
EVENT_THRESH_MASK == FromInt(\h1fffff)
EVENT_SAMPLE_SHIFT == 24
EVENT_SAMPLE_MASK == FromInt(\h1f)
EVENT_CACHE_SEL_SHIFT == 20
EVENT_CACHE_SEL_MASK == FromInt(\hf)
W3 == FromInt(3)

EVENT_IS_L1 == Shl(FromInt(4), EVENT_CACHE_SEL_SHIFT)
EVENT_PMC_SHIFT == 16
EVENT_PMC_MASK == FromInt(\hf)
EVENT_UNIT_SHIFT == 12
EVENT_UNIT_MASK == FromInt(\hf)
EVENT_COMBINE_SHIFT == 11
EVENT_COMBINE_MASK == FromInt(\h1)
EVENT_MARKED_SHIFT == 8
EVENT_MARKED_MASK == FromInt(\h1)
EVENT_IS_MARKED == Shl(EVENT_MARKED_MASK, EVENT_MARKED_SHIFT)
EVENT_PSEL_MASK == FromInt(\hff)

(* Layout of constraint bits.                                              *)

CNST_FAB_MATCH_VAL(v) == Shl(And(v, EVENT_THR_CTL_MASK), 56)
CNST_FAB_MATCH_MASK == CNST_FAB_MATCH_VAL(EVENT_THR_CTL_MASK)

CNST_THRESH_VAL(v) == Shl(And(v, EVENT_THRESH_MASK), 32)
CNST_THRESH_MASK == CNST_THRESH_VAL(EVENT_THRESH_MASK)

CNST_L1_QUAL_VAL(v) == Shl(And(v, W3), 22)
CNST_L1_QUAL_MASK == CNST_L1_QUAL_VAL(W3)

CNST_SAMPLE_VAL(v) == Shl(And(v, EVENT_SAMPLE_MASK), 16)
CNST_SAMPLE_MASK == CNST_SAMPLE_VAL(EVENT_SAMPLE_MASK)

CNST_NC_SHIFT == 12
CNST_NC_VAL == Bit(CNST_NC_SHIFT)
CNST_NC_MASK == Bit(3 + CNST_NC_SHIFT)

POWER8_TEST_ADDER_4 == Bit(2 + CNST_NC_SHIFT)
POWER8_TEST_ADDER == Shl(W3, CNST_NC_SHIFT)

CNST_PMC_SHIFT(pmc) == (pmc - 1) * 2
CNST_PMC_VAL(pmc) == Bit(CNST_PMC_SHIFT(pmc))
CNST_PMC_MASK(pmc) == Bit(1 + CNST_PMC_SHIFT(pmc))

POWER8_ADD_FIELDS ==
    CNST_PMC_VAL(1) \cup CNST_PMC_VAL(2) \cup CNST_PMC_VAL(3) \cup
    CNST_PMC_VAL(4) \cup CNST_PMC_VAL(5) \cup CNST_PMC_VAL(6) \cup CNST_NC_VAL

(* Bits in MMCR1 and MMCRA.                                                *)

MMCR1_UNIT_SHIFT(pmc) == 60 - (4 * (pmc - 1))
MMCR1_COMBINE_SHIFT(pmc) == 35 - (pmc - 1)
MMCR1_PMCSEL_SHIFT(pmc) == 24 - ((pmc - 1) * 8)
MMCR1_DC_QUAL_SHIFT == 47
MMCR1_IC_QUAL_SHIFT == 46

MMCRA_SAMP_MODE_SHIFT == 1
MMCRA_SAMP_ELIG_SHIFT == 4
MMCRA_THR_CTL_SHIFT == 8
MMCRA_THR_SEL_SHIFT == 16
MMCRA_THR_CMP_SHIFT == 32
MMCRA_SDAR_MODE_TLB == Bit(42)

(* Register bits and flags the file takes from kernel headers.             *)

MMCRA_SAMPLE_ENABLE == Bit(0)
MMCR0_PMC1CE == FromInt(\h8000)
MMCR0_PMCjCE == FromInt(\h4000)
PPMU_ONLY_COUNT_RUN == FromInt(4)

---------------------------------------------------------------------------
(* Field decoding, as at the head of both operations.                      *)

\* Fields the code keeps in unsigned int and compares: as integers.
EventPmc(ev) == ToInt(Field(ev, EVENT_PMC_SHIFT, EVENT_PMC_MASK))
EventUnit(ev) == ToInt(Field(ev, EVENT_UNIT_SHIFT, EVENT_UNIT_MASK))
EventCache(ev) == ToInt(Field(ev, EVENT_CACHE_SEL_SHIFT, EVENT_CACHE_SEL_MASK))
EventThrCmp(ev) == ToInt(Field(ev, EVENT_THR_CMP_SHIFT, EVENT_THR_CMP_MASK))

\* Fields the code keeps in unsigned long and only shifts and ors: as words.
EventUnitW(ev) == Field(ev, EVENT_UNIT_SHIFT, EVENT_UNIT_MASK)
EventCombine(ev) == Field(ev, EVENT_COMBINE_SHIFT, EVENT_COMBINE_MASK)
EventPsel(ev) == And(ev, EVENT_PSEL_MASK)
EventThrCtl(ev) == Field(ev, EVENT_THR_CTL_SHIFT, EVENT_THR_CTL_MASK)
EventThrSel(ev) == Field(ev, EVENT_THR_SEL_SHIFT, EVENT_THR_SEL_MASK)
EventThrCmpW(ev) == Field(ev, EVENT_THR_CMP_SHIFT, EVENT_THR_CMP_MASK)

---------------------------------------------------------------------------
(* power8_get_constraint                                                   *)

\* 0x500fa and 0x600f4, the one event of PMC5 and of PMC6.
PM_RUN_INST_CMPL == FromInt(\h500fa)
PM_RUN_CYC == FromInt(\h600f4)

FAB_MATCH_BITS == FromInt(\hff0fe)
PM_MRK_FAB_RSP_MATCH == FromInt(\h30056)
PM_MRK_FAB_RSP_MATCH_CYC == FromInt(\h4f052)

event_is_fab_match(ev) ==
    LET e == And(ev, FAB_MATCH_BITS)
    IN  e = PM_MRK_FAB_RSP_MATCH \/ e = PM_MRK_FAB_RSP_MATCH_CYC

\* The counter-pin test of an event with pmc /= 0 comparing only the selector
\* code of an event on PMC5/PMC6 with the reserved codes.
PmcRejectedSelectorOnly(ev, pmc) ==
    \/ pmc > 6
    \/ /\ pmc >= 5
       /\ EventPsel(ev) /= FromInt(\hfa)
       /\ EventPsel(ev) /= FromInt(\hf4)

\* if (pmc > 6) return -1; ... if (pmc >= 5 && event != 0x500fa &&
\* event != 0x600f4) return -1;
PmcRejected(ev, pmc) ==
    \/ pmc > 6
    \/ (pmc >= 5 /\ ev /= PM_RUN_INST_CMPL /\ ev /= PM_RUN_CYC)

\* 0x60: the upper two bits of the 7-bit mantissa.
MANTISSA_HIGH == FromInt(\h60)

\* The mantissa test looking at the topmost mantissa bit only.
ThreshRejectedTopBit(ev) ==
    /\ ~event_is_fab_match(ev)
    /\ LET cmp == EventThrCmp(ev)
           exp == cmp \div (2^7)
       IN  exp /= 0 /\ And(EventThrCmpW(ev), Bit(6)) = {}

\* else-branch of the fab-match test: if (exp && (cmp & 0x60) == 0) return -1;
ThreshRejected(ev) ==
    /\ ~event_is_fab_match(ev)
    /\ LET cmp == EventThrCmp(ev)
           exp == cmp \div (2^7)
       IN  exp /= 0 /\ And(EventThrCmpW(ev), MANTISSA_HIGH) = {}

\* The call power8_get_constraint(ev, &m0, &v0): the return value and the
\* contents of *maskp and *valp after it.
power8_get_constraint(ev, m0, v0) ==
    LET pmc   == EventPmc(ev)
        unit  == EventUnit(ev)
        cache == EventCache(ev)
        l2l3  == unit >= 6 /\ unit <= 9
        isl1  == ~l2l3 /\ And(ev, EVENT_IS_L1) /= {}
        mark  == And(ev, EVENT_IS_MARKED) /= {}
        fab   == event_is_fab_match(ev)
        mask  == (IF pmc /= 0 THEN CNST_PMC_MASK(pmc) ELSE {})
                 \cup (IF pmc <= 4 THEN CNST_NC_MASK ELSE {})
                 \cup (IF isl1 THEN CNST_L1_QUAL_MASK ELSE {})
                 \cup (IF mark THEN CNST_SAMPLE_MASK ELSE {})
                 \cup (IF fab THEN CNST_FAB_MATCH_MASK ELSE CNST_THRESH_MASK)
        value == (IF pmc /= 0 THEN CNST_PMC_VAL(pmc) ELSE {})
                 \cup (IF pmc <= 4 THEN CNST_NC_VAL ELSE {})
                 \cup (IF isl1 THEN CNST_L1_QUAL_VAL(Shr(ev, EVENT_CACHE_SEL_SHIFT)) ELSE {})
                 \cup (IF mark THEN CNST_SAMPLE_VAL(Shr(ev, EVENT_SAMPLE_SHIFT)) ELSE {})
                 \cup (IF fab THEN CNST_FAB_MATCH_VAL(Shr(ev, EVENT_THR_CTL_SHIFT))
                              ELSE CNST_THRESH_VAL(Shr(ev, EVENT_THRESH_SHIFT)))
        reject == [ret |-> -1, maskp |-> m0, valp |-> v0]
    IN  IF pmc /= 0 /\ PmcRejected(ev, pmc) THEN reject
        ELSE IF l2l3 /\ cache /= 0 THEN reject
        ELSE IF ThreshRejected(ev) THEN reject
        ELSE [ret |-> 0, maskp |-> mask, valp |-> value]

---------------------------------------------------------------------------
(* power8_compute_mmcr                                                     *)

\* No first pass: the in-use set starts empty.
FirstPassSkipped(ev) == {}

\* First pass: pmc_inuse |= 1 << pmc for every event with pmc /= 0.
\* ev is event[0..n_ev-1] held as the sequence ev[1..n_ev].
FirstPass(ev) ==
    UNION { IF EventPmc(ev[i]) /= 0 THEN Bit(EventPmc(ev[i])) ELSE {} :
              i \in 1..Len(ev) }

\* for (pmc = 1; pmc <= 4; ++pmc) if (!(pmc_inuse & (1 << pmc))) break;
\* The value of pmc after the loop: the first free counter of 1..4, else 5.
FreePmc(pmc_inuse) ==
    IF \E p \in 1..4 : And(pmc_inuse, Bit(p)) = {}
    THEN CHOOSE p \in 1..4 :
            /\ And(pmc_inuse, Bit(p)) = {}
            /\ \A q \in 1..(p - 1) : And(pmc_inuse, Bit(q)) /= {}
    ELSE 5

\* mmcr1 |= (event[i] >> EVENT_THR_CTL_SHIFT) & EVENT_THR_CTL_MASK;
FabMatchBits(e) ==
    And(Shr(e, EVENT_THR_CTL_SHIFT), EVENT_THR_CTL_MASK)

\* One iteration of the second pass on event e.
SecondPassStep(st, e) ==
    LET pmc0    == EventPmc(e)
        unit    == EventUnitW(e)
        combine == EventCombine(e)
        psel    == EventPsel(e)
        pmc     == IF pmc0 = 0 THEN FreePmc(st.pmc_inuse) ELSE pmc0
        inuse   == IF pmc0 = 0 THEN Or(st.pmc_inuse, Bit(pmc))
                               ELSE st.pmc_inuse
        slot    == IF pmc <= 4
                   THEN Shl(unit, MMCR1_UNIT_SHIFT(pmc))
                        \cup Shl(combine, MMCR1_COMBINE_SHIFT(pmc))
                        \cup Shl(psel, MMCR1_PMCSEL_SHIFT(pmc))
                   ELSE {}
        cache   == Shr(e, EVENT_CACHE_SEL_SHIFT)
        l1      == IF And(e, EVENT_IS_L1) /= {}
                   THEN Shl(And(cache, Bit(0)), MMCR1_IC_QUAL_SHIFT)
                        \cup Shl(And(Shr(cache, 1), Bit(0)), MMCR1_DC_QUAL_SHIFT)
                   ELSE {}
        val     == And(Shr(e, EVENT_SAMPLE_SHIFT), EVENT_SAMPLE_MASK)
        samp    == IF And(e, EVENT_IS_MARKED) /= {}
                   THEN MMCRA_SAMPLE_ENABLE
                        \cup (IF val /= {}
                              THEN Shl(And(val, W3), MMCRA_SAMP_MODE_SHIFT)
                                   \cup Shl(Shr(val, 2), MMCRA_SAMP_ELIG_SHIFT)
                              ELSE {})
                   ELSE {}
        fab     == event_is_fab_match(e)
        thr     == IF fab THEN {}
                   ELSE Shl(EventThrCtl(e), MMCRA_THR_CTL_SHIFT)
                        \cup Shl(EventThrSel(e), MMCRA_THR_SEL_SHIFT)
                        \cup Shl(EventThrCmpW(e), MMCRA_THR_CMP_SHIFT)
    IN  [pmc_inuse |-> inuse,
         mmcr1 |-> st.mmcr1 \cup slot \cup l1 \cup (IF fab THEN FabMatchBits(e) ELSE {}),
         mmcra |-> st.mmcra \cup samp \cup thr,
         hwc   |-> Append(st.hwc, pmc - 1)]

RECURSIVE SecondPass(_, _, _)
\* for (i = 0; i < n_ev; ++i) { ... } from iteration i on (i counted from 1).
SecondPass(ev, i, st) ==
    IF i > Len(ev) THEN st ELSE SecondPass(ev, i + 1, SecondPassStep(st, ev[i]))

\* 0x7c, counters 2..6 of the 1-based in-use set, and 0x1c, counters 2..4.
PMC_2_TO_4 == FromInt(\h1c)
PMC_2_TO_6 == FromInt(\h7c)

\* mmcr[0] with PMCjCE tied to counters 2..4 only.
Mmcr0Of_2to4(pmc_inuse) ==
    (IF And(pmc_inuse, Bit(1)) /= {} THEN MMCR0_PMC1CE ELSE {})
    \cup (IF And(pmc_inuse, PMC_2_TO_4) /= {} THEN MMCR0_PMCjCE ELSE {})

\* mmcr[0] = 0; if (pmc_inuse & 2) mmcr[0] = MMCR0_PMC1CE;
\* if (pmc_inuse & 0x7c) mmcr[0] |= MMCR0_PMCjCE;
Mmcr0Of(pmc_inuse) ==
    (IF And(pmc_inuse, Bit(1)) /= {} THEN MMCR0_PMC1CE ELSE {})
    \cup (IF And(pmc_inuse, PMC_2_TO_6) /= {} THEN MMCR0_PMCjCE ELSE {})

\* power8_compute_mmcr(event, n_ev, hwc, mmcr): what it leaves in hwc[] (as the
\* sequence hwc[1..n_ev]) and mmcr[0..2].
power8_compute_mmcr(ev) ==
    LET st == SecondPass(ev, 1, [pmc_inuse |-> FirstPass(ev),
                                 mmcr1 |-> {},
                                 mmcra |-> MMCRA_SDAR_MODE_TLB,
                                 hwc |-> <<>>])
    IN  [hwc  |-> st.hwc,
         mmcr |-> [k \in 0..2 |-> CASE k = 0 -> Mmcr0Of(st.pmc_inuse)
                                    [] k = 1 -> st.mmcr1
                                    [] k = 2 -> st.mmcra]]

---------------------------------------------------------------------------
(* power8_disable_pmc                                                      *)

W_FF == FromInt(\hff)

\* The hook taking its argument as a one-based counter number.
power8_disable_pmc_onebased(pmc, m) ==
    IF pmc >= 1 /\ pmc <= 4
    THEN [m EXCEPT ![1] = And(@, Not(Shl(W_FF, MMCR1_PMCSEL_SHIFT(pmc))))]
    ELSE m

\* if (pmc <= 3) mmcr[1] &= ~(0xffUL << MMCR1_PMCSEL_SHIFT(pmc + 1));
power8_disable_pmc(pmc, m) ==
    IF pmc <= 3
    THEN [m EXCEPT ![1] = And(@, Not(Shl(W_FF, MMCR1_PMCSEL_SHIFT(pmc + 1))))]
    ELSE m

---------------------------------------------------------------------------
(* power8_get_alternatives                                                 *)

MAX_ALT == 2

\* Table of alternatives, sorted by column 0 (the event codes as numbers).
EventAlternativeCodes ==
    << <<\h10134, \h301e2>>,
       <<\h10138, \h40138>>,
       <<\h18082, \h3e05e>>,
       <<\h1d14e, \h401e8>>,
       <<\h1e054, \h4000a>>,
       <<\h20036, \h40036>>,
       <<\h200f2, \h300f2>>,
       <<\h200f4, \h600f4>>,
       <<\h2013c, \h3012e>>,
       <<\h3e054, \h400f0>>,
       <<\h400fa, \h500fa>> >>

\* ARRAY_SIZE(event_alternatives)
NumAlternatives == Len(EventAlternativeCodes)

\* event_alternatives[i][j], i and j counted from 0.
event_alternatives ==
    [i \in 0..(NumAlternatives - 1) |->
        [j \in 0..(MAX_ALT - 1) |-> FromInt(EventAlternativeCodes[i + 1][j + 1])]]

\* The scan stopping at a key equal to the event as well.
ScanStopsAtEqual(ev, i) ==
    ev = event_alternatives[i][0] \/ Less(ev, event_alternatives[i][0])

\* if (event < event_alternatives[i][0]) break;
ScanStops(ev, i) == Less(ev, event_alternatives[i][0])

\* for (j = 0; j < MAX_ALT && event_alternatives[i][j]; ++j)
\*     if (event == event_alternatives[i][j]) return i;
RowMatches(ev, i) ==
    \E j \in 0..(MAX_ALT - 1) :
        /\ ev = event_alternatives[i][j]
        /\ \A k \in 0..j : event_alternatives[i][k] /= W0

RECURSIVE FindFrom(_, _)
\* The loop of find_alternative from row i on.
FindFrom(ev, i) ==
    IF i >= NumAlternatives THEN -1
    ELSE IF ScanStops(ev, i) THEN -1
    ELSE IF RowMatches(ev, i) THEN i
    ELSE FindFrom(ev, i + 1)

find_alternative(ev) == FindFrom(ev, 0)

\* An entry of alt[] the call has not written.
Unwritten == {-1}

\* The filter keeping every non-zero member, the original included.
KeepAlternativeUnfiltered(alt_ev, ev) == alt_ev /= W0

\* if (alt_event && alt_event != event)
KeepAlternative(alt_ev, ev) == alt_ev /= W0 /\ alt_ev /= ev

RECURSIVE AppendGroup(_, _, _, _)
\* for (j = 0; j < MAX_ALT; ++j) { ... alt[num_alt++] = alt_event; } from j on.
AppendGroup(ev, i, j, st) ==
    IF j >= MAX_ALT THEN st
    ELSE LET alt_ev == event_alternatives[i][j]
         IN  AppendGroup(ev, i, j + 1,
                 IF KeepAlternative(alt_ev, ev)
                 THEN [alt |-> [st.alt EXCEPT ![st.n] = alt_ev], n |-> st.n + 1]
                 ELSE st)

\* The switch of the run-state loop: the event appended for alt[i], if any.
RunStateTwin(a) ==
    CASE a = FromInt(\h1e)    -> FromInt(\h600f4)
      [] a = FromInt(\h600f4) -> FromInt(\h1e)
      [] a = FromInt(\h2)     -> FromInt(\h500fa)
      [] a = FromInt(\h500fa) -> FromInt(\h2)
      [] OTHER                -> W0

RECURSIVE AppendTwins(_, _, _, _)
\* j = num_alt; for (i = 0; i < num_alt; ++i) switch (alt[i]) { ... alt[j++] }
\* from i on; a is alt[], n is num_alt.
AppendTwins(a, i, n, j) ==
    IF i >= n THEN [alt |-> a, n |-> j]
    ELSE IF RunStateTwin(a[i]) /= W0
         THEN AppendTwins([a EXCEPT ![j] = RunStateTwin(a[i])], i + 1, n, j + 1)
         ELSE AppendTwins(a, i + 1, n, j)

\* power8_get_alternatives(ev, flags, alt): the returned count and alt[].
power8_get_alternatives(ev, flags, alt0) ==
    LET s0 == [alt |-> [alt0 EXCEPT ![0] = ev], n |-> 1]
        i  == find_alternative(ev)
        s1 == IF i >= 0 THEN AppendGroup(ev, i, 0, s0) ELSE s0
    IN  IF And(flags, PPMU_ONLY_COUNT_RUN) /= {}
        THEN AppendTwins(s1.alt, 0, s1.n, s1.n)
        ELSE s1

---------------------------------------------------------------------------
(* Event descriptors offered to the operations.                            *)

\* The descriptor with the given field values (raw event encoding).
MkEvent(psel, marked, combine, unit, pmc, cache, sample, thr_sel, thr_ctl, thr_cmp) ==
    FromInt(psel)
    \cup Shl(FromInt(marked), EVENT_MARKED_SHIFT)
    \cup Shl(FromInt(combine), EVENT_COMBINE_SHIFT)
    \cup Shl(FromInt(unit), EVENT_UNIT_SHIFT)
    \cup Shl(FromInt(pmc), EVENT_PMC_SHIFT)
    \cup Shl(FromInt(cache), EVENT_CACHE_SEL_SHIFT)
    \cup Shl(FromInt(sample), EVENT_SAMPLE_SHIFT)
    \cup Shl(FromInt(thr_sel), EVENT_THR_SEL_SHIFT)
    \cup Shl(FromInt(thr_ctl), EVENT_THR_CTL_SHIFT)
    \cup Shl(FromInt(thr_cmp), EVENT_THR_CMP_SHIFT)

\* Descriptors offered to power8_get_constraint: every pin class, the reserved
\* selector codes, L2/L3 and other units, cache selectors, threshold compares
\* on both sides of the mantissa rule, marked and unmarked.
GCEvents ==
    { MkEvent(psel, marked, 0, unit, pmc, cache, 0, 0, 0, cmp) :
        psel \in {\hfa, \hf4, \h56, \h52},
        marked \in {0, 1},
        unit \in {0, 1, 6, 15},
        pmc \in {0, 3, 4, 5, 6, 7, 15},
        cache \in {0, 1, 6},
        cmp \in {0, \h20, \h80, \ha0, \hc0, \h39f} }

\* Event codes named in the file, and descriptors built on its encoding.
PM_CYC == FromInt(\h1e)
PM_GCT_NOSLOT_CYC == FromInt(\h100f8)
PM_CMPLU_STALL == FromInt(\h4000a)

\* Unpinned, marked, combined first-level-cache event: unit 0xd, selector
\* 0x54, cache selector 0b0110 (L1, qualifier 10), sample 0b00101.
EV_L1_MARKED == MkEvent(\h54, 1, 1, 13, 0, 6, 5, 0, 0, 0)

\* PM_MRK_FAB_RSP_MATCH (0x30056) with match value 0x81 in thresh_ctl.
EV_FAB_MATCH == MkEvent(\h56, 0, 0, 0, 3, 0, 0, 0, \h81, 0)

\* Selector 0xf4 on PMC5: not the event of that counter.
EV_BAD_PMC5 == FromInt(\h500f4)

\* Descriptors the scheduler offers for a group.
SchedEvents ==
    { PM_CYC, EV_L1_MARKED, PM_GCT_NOSLOT_CYC, EV_FAB_MATCH,
      PM_CMPLU_STALL, PM_RUN_INST_CMPL, PM_RUN_CYC, EV_BAD_PMC5 }

\* Largest group the scheduler collects (a group without conflict holds at
\* most four events on PMC1..4, one on PMC5 and one on PMC6).
MaxEv == 6

\* Largest counter index handed to power8_disable_pmc.
MaxDisablePmc == 4

\* Entries of the alt[] array the caller hands to power8_get_alternatives.
AltCap == 8

\* Event codes offered to power8_get_alternatives: every member of the table
\* and its two neighbours, the run-state twins, and codes above 32 bits.
AltEvents ==
    { FromInt(EventAlternativeCodes[i][j] + d) :
        i \in 1..NumAlternatives, j \in 1..MAX_ALT, d \in {-1, 0, 1} }
    \cup { W0, FromInt(\h1e), FromInt(\h2), FromInt(\h1f) }
    \cup { Or(FromInt(\h10134), Bit(40)), Or(FromInt(\h500fa), Bit(32)), Bit(63) }

\* Values of the flags argument.
AltFlags == { W0, PPMU_ONLY_COUNT_RUN, FromInt(3), FromInt(7) }

---------------------------------------------------------------------------
(* The scheduler's accumulation of the adder fields.                       *)

\* The overflow (mask) bits of all adder fields.
AdderMasks ==
    CNST_NC_MASK \cup UNION { CNST_PMC_MASK(p) : p \in 1..6 }

\* The mask bits set in the accumulated adder fields a once biased by the
\* test adder.
Overflow(a) == And(FromInt(a + ToInt(POWER8_TEST_ADDER)), AdderMasks)

---------------------------------------------------------------------------
(* State machine.                                                          *)

\* No call made; the caller's mask and value hold zero.
InitGC ==
    /\ gc_pc = "idle"
    /\ gc_event = W0
    /\ gc_ret = 0
    /\ maskp = W0
    /\ valp = W0

\* No call made; the caller's mask and value hold zero or all ones.
InitGCAny ==
    /\ gc_pc = "idle"
    /\ gc_event = W0
    /\ gc_ret = 0
    /\ maskp \in {W0, AllOnes}
    /\ valp = maskp

\* One call ret = power8_get_constraint(e, &mask, &value) by the scheduler.
GetConstraint ==
    \E e \in GCEvents :
        LET r == power8_get_constraint(e, maskp, valp)
        IN  /\ gc_pc = "idle"
            /\ gc_pc' = "returned"
            /\ gc_event' = e
            /\ gc_ret' = r.ret
            /\ maskp' = r.maskp
            /\ valp' = r.valp

InitSched ==
    /\ event = <<>>
    /\ acc = 0
    /\ hwc = <<>>
    /\ mmcr = [k \in 0..2 |-> W0]
    /\ pc = "collect"
    /\ dis_pmc = -1

InitAlt ==
    /\ alt_event = W0
    /\ alt_flags = W0
    /\ alt = [k \in 0..(AltCap - 1) |-> Unwritten]
    /\ num_alt = 0

Init == InitGC /\ InitSched /\ InitAlt

\* power8_get_constraint(e, &mask, &value) for each descriptor on offer.
ConstraintOf == [e \in SchedEvents |-> power8_get_constraint(e, W0, W0)]

\* The scheduler adds an event to the group: the event must pass
\* power8_get_constraint, and its adder-field values are added to the
\* accumulated ones.  Nothing is added to a group already found in conflict.
AddEvent ==
    \E e \in SchedEvents :
        LET r == ConstraintOf[e]
        IN  /\ pc = "collect"
            /\ Len(event) < MaxEv
            /\ Overflow(acc) = {}
            /\ r.ret = 0
            /\ event' = Append(event, e)
            /\ acc' = acc + ToInt(And(r.valp, POWER8_ADD_FIELDS))
            /\ UNCHANGED <<hwc, mmcr, pc, dis_pmc>>

\* power8_compute_mmcr(event, n_ev, hwc, mmcr) on a group without conflict.
ComputeMmcr ==
    LET r == power8_compute_mmcr(event)
    IN  /\ pc = "collect"
        /\ Overflow(acc) = {}
        /\ hwc' = r.hwc
        /\ mmcr' = r.mmcr
        /\ pc' = "computed"
        /\ UNCHANGED <<event, acc, dis_pmc>>

\* power8_disable_pmc(p, mmcr) on the computed image.
DisablePmc ==
    \E p \in 0..MaxDisablePmc :
        /\ pc = "computed"
        /\ mmcr' = power8_disable_pmc(p, mmcr)
        /\ dis_pmc' = p
        /\ pc' = "disabled"
        /\ UNCHANGED <<event, acc, hwc>>

Next ==
    \/ AddEvent /\ UNCHANGED <<gc_vars, alt_vars>>
    \/ ComputeMmcr /\ UNCHANGED <<gc_vars, alt_vars>>
    \/ DisablePmc /\ UNCHANGED <<gc_vars, alt_vars>>

Spec == Init /\ [][Next]_vars

\* One call num_alt = power8_get_alternatives(e, f, alt) on a fresh array.
GetAlternatives ==
    \E e \in AltEvents, f \in AltFlags :
        LET r == power8_get_alternatives(e, f, alt)
        IN  /\ num_alt = 0
            /\ alt_event' = e
            /\ alt_flags' = f
            /\ alt' = r.alt
            /\ num_alt' = r.n

NextAlt == GetAlternatives /\ UNCHANGED <<gc_vars, sched_vars>>

SpecAlt == Init /\ [][NextAlt]_vars

NextGC == GetConstraint /\ UNCHANGED <<sched_vars, alt_vars>>

InitAny == InitGCAny /\ InitSched /\ InitAlt

SpecGC == InitAny /\ [][NextGC]_vars

---------------------------------------------------------------------------
(* Claims about power8_get_constraint (checked under SpecGC).              *)

\* The cache-selector check passes: not an L2/L3 unit with a cache selector.
CachePasses(ev) == ~(EventUnit(ev) >= 6 /\ EventUnit(ev) <= 9 /\ EventCache(ev) /= 0)

\* The threshold check passes: fabric match, or a legal threshold compare.
ThreshPasses(ev) ==
    \/ event_is_fab_match(ev)
    \/ EventThrCmp(ev) \div 128 = 0
    \/ And(EventThrCmpW(ev), FromInt(\h60)) /= {}

\* The pin check passes: unpinned, or PMC1..4, or the one event of PMC5/PMC6.
PinPasses(ev) ==
    \/ EventPmc(ev) <= 4
    \/ ev = FromInt(\h500fa)
    \/ ev = FromInt(\h600f4)

\* C4 as stated: a pin above 6 is rejected, and an event on PMC5/PMC6 whose
\* other fields pass the cache and threshold checks is accepted exactly when
\* its selector code is the reserved one of that counter (0xfa on PMC5, 0xf4
\* on PMC6).
C4_SelectorDecides ==
    gc_pc = "returned" =>
        /\ EventPmc(gc_event) > 6 => gc_ret = -1
        /\ (EventPmc(gc_event) \in {5, 6} /\ CachePasses(gc_event) /\ ThreshPasses(gc_event))
             => (gc_ret = 0 <=>
                   \/ (EventPmc(gc_event) = 5 /\ EventPsel(gc_event) = FromInt(\hfa))
                   \/ (EventPmc(gc_event) = 6 /\ EventPsel(gc_event) = FromInt(\hf4)))

\* C4 amended: a pin above 6 is rejected; an event on PMC5/PMC6 is accepted
\* exactly when the whole descriptor is 0x500fa or 0x600f4; a rejecting call
\* leaves *maskp and *valp as they were, an accepting call writes both.
C4_WholeEventDecides ==
    [][gc_pc' = "returned" =>
        /\ EventPmc(gc_event') > 6 => gc_ret' = -1
        /\ EventPmc(gc_event') \in {5, 6}
             => (gc_ret' = 0 <=> gc_event' \in {FromInt(\h500fa), FromInt(\h600f4)})
        /\ gc_ret' \in {0, -1}
        /\ gc_ret' = -1 => (maskp' = maskp /\ valp' = valp)]_vars

\* A descriptor on PMC5 carrying the reserved selector 0xfa is rejected (it
\* is not 0x500fa) and the caller's mask and value still hold all ones.
C4_Witness ==
    /\ gc_pc = "returned"
    /\ EventPmc(gc_event) = 5
    /\ EventPsel(gc_event) = FromInt(\hfa)
    /\ CachePasses(gc_event) /\ ThreshPasses(gc_event)
    /\ gc_ret = -1
    /\ maskp = AllOnes /\ valp = AllOnes

\* C5 as stated: every descriptor that passes the pin and cache checks is
\* accepted when the 3-bit prefix of thresh_cmp is 0, and when the prefix is
\* not 0 it is rejected exactly when both mantissa bits 0x60 are zero.
C5_ThreshRuleAllEvents ==
    (gc_pc = "returned" /\ PinPasses(gc_event) /\ CachePasses(gc_event)) =>
        /\ EventThrCmp(gc_event) \div 128 = 0 => gc_ret = 0
        /\ EventThrCmp(gc_event) \div 128 /= 0 =>
             (gc_ret = -1 <=> And(EventThrCmpW(gc_event), FromInt(\h60)) = {})

\* C5 amended: the rule holds for every descriptor that is not a fabric-match
\* event; a fabric-match event that passes the pin and cache checks is
\* accepted whatever its thresh_cmp.
C5_ThreshRuleNonFab ==
    (gc_pc = "returned" /\ PinPasses(gc_event) /\ CachePasses(gc_event)) =>
        IF event_is_fab_match(gc_event)
        THEN gc_ret = 0
        ELSE /\ EventThrCmp(gc_event) \div 128 = 0 => gc_ret = 0
             /\ EventThrCmp(gc_event) \div 128 /= 0 =>
                  (gc_ret = -1 <=> And(EventThrCmpW(gc_event), FromInt(\h60)) = {})

\* A non-fabric-match descriptor with prefix 1 and mantissa bit 5 set (0xa0)
\* that passes the pin and cache checks has been accepted.
C5_Witness ==
    /\ gc_pc = "returned"
    /\ PinPasses(gc_event) /\ CachePasses(gc_event)
    /\ ~event_is_fab_match(gc_event)
    /\ EventThrCmp(gc_event) = \ha0
    /\ gc_ret = 0

---------------------------------------------------------------------------
(* Claims about the group operations (checked under Spec).            *)

\* Number of events of the group pinned to counter p.
PinCount(ev, p) == Cardinality({i \in 1..Len(ev) : EventPmc(ev[i]) = p})

\* Number of events of the group with pin <= 4 (unpinned included).
LowCount(ev) == Cardinality({i \in 1..Len(ev) : EventPmc(ev[i]) <= 4})

\* Two events pinned to one counter, or more than four events on PMC1..4.
CountConflict(ev) ==
    \/ LowCount(ev) >= 5
    \/ \E p \in 1..6 : PinCount(ev, p) >= 2

\* The value fields of the constraints of any two events agree where both
\* masks cover them (bits 16 and up; bits 0..15 are the adder fields).
ValueFieldsAgree(ev) ==
    \A i, j \in 1..Len(ev) :
        LET ci == ConstraintOf[ev[i]]
            cj == ConstraintOf[ev[j]]
            both == (ci.maskp \cap cj.maskp) \ (0..15)
        IN  ci.valp \cap both = cj.valp \cap both

\* compute_mmcr has run on the group (and disable_pmc has not touched mmcr).
Computed == pc = "computed"

\* Counters 1..4 pinned by some event of the group.
PinnedCounters(ev) == {EventPmc(ev[i]) : i \in 1..Len(ev)} \ {0}

\* Counters given to the unpinned events before index i.
GivenBefore(ev, h, i) == {h[j] + 1 : j \in {k \in 1..(i - 1) : EventPmc(ev[k]) = 0}}

\* C1: in a group of accepted events with no two events on one counter and at
\* most four events with pin <= 4, the hwc[] values are pairwise distinct and
\* in 0..5, a pinned event gets pin-1, and an unpinned event gets the lowest
\* counter of 1..4 neither pinned by any event of the group nor given to an
\* earlier unpinned event.
C1_DistinctLowestFree ==
    (Computed /\ ~CountConflict(event)) =>
        /\ Len(hwc) = Len(event)
        /\ \A i \in 1..Len(event) : hwc[i] \in 0..5
        /\ \A i, j \in 1..Len(event) : i /= j => hwc[i] /= hwc[j]
        /\ \A i \in 1..Len(event) :
             IF EventPmc(event[i]) /= 0
             THEN hwc[i] = EventPmc(event[i]) - 1
             ELSE LET free == (1..4) \ (PinnedCounters(event) \cup GivenBefore(event, hwc, i))
                  IN  /\ hwc[i] \in 0..3
                      /\ hwc[i] + 1 \in free
                      /\ \A c \in free : hwc[i] + 1 <= c

\* Two unpinned events ahead of events pinned to PMC1 and PMC3 were given
\* counters 2 and 4.
C1_Witness ==
    /\ Computed
    /\ Len(event) = 4
    /\ EventPmc(event[1]) = 0 /\ EventPmc(event[2]) = 0
    /\ EventPmc(event[3]) = 1 /\ EventPmc(event[4]) = 3
    /\ hwc = <<1, 3, 0, 2>>

\* The 4-bit unit, 1-bit combine and 8-bit selector fields of slot s read
\* back from MMCR1 at the slot's offsets.
ReadUnit(m1, s) == And(Shr(m1, 60 - 4 * (s - 1)), FromInt(\hf))
ReadCombine(m1, s) == And(Shr(m1, 35 - (s - 1)), FromInt(1))
ReadPsel(m1, s) == And(Shr(m1, 24 - 8 * (s - 1)), FromInt(\hff))

\* C2: for a group of accepted events whose constraints do not conflict, the
\* unit, combine and selector fields of MMCR1 read back at slot hwc[i]+1 are
\* those of event i for every event with hwc[i] <= 3, and the fields of every
\* slot of 1..4 given to no event read back as zero.
C2_RoundTrip ==
    (Computed /\ ~CountConflict(event) /\ ValueFieldsAgree(event)) =>
        /\ \A i \in 1..Len(event) :
             hwc[i] <= 3 =>
                /\ ReadUnit(mmcr[1], hwc[i] + 1) = EventUnitW(event[i])
                /\ ReadCombine(mmcr[1], hwc[i] + 1) = EventCombine(event[i])
                /\ ReadPsel(mmcr[1], hwc[i] + 1) = EventPsel(event[i])
        /\ \A s \in (1..4) \ {hwc[i] + 1 : i \in 1..Len(event)} :
                /\ ReadUnit(mmcr[1], s) = {}
                /\ ReadCombine(mmcr[1], s) = {}
                /\ ReadPsel(mmcr[1], s) = {}

\* The adder field of counter p (2 bits) and the NC field (4 bits) of the
\* integer a.
AdderFieldPmc(a, p) == (a \div (4 ^ (p - 1))) % 4
AdderFieldNc(a) == (a \div 4096) % 16

\* C3: accumulating the adder-field values of accepted events by integer
\* addition, with the bias 3 added to NC for the test, a mask bit is set
\* exactly when the group holds a fifth event with pin <= 4 or a second event
\* on one counter; no mask bit is set before, and every adder field still
\* holds its own count (no carry into a neighbour).  Events are added only
\* while no mask bit is set, so a set bit is set for the first time.
C3_OverflowExact ==
    pc = "collect" =>
        /\ Overflow(acc) /= {} <=> CountConflict(event)
        /\ \A p \in 1..6 : AdderFieldPmc(acc, p) = PinCount(event, p)
        /\ AdderFieldNc(acc) = LowCount(event)
        /\ AdderFieldNc(acc + 3 * 4096) = LowCount(event) + 3
        /\ acc < 65536

\* The fifth event with pin <= 4, no counter pinned twice: exactly the NC
\* mask bit is set.
C3_Witness ==
    /\ pc = "collect"
    /\ LowCount(event) = 5
    /\ \A p \in 1..6 : PinCount(event, p) <= 1
    /\ Overflow(acc) = CNST_NC_MASK

\* Counters (one-based) in use by the group after compute_mmcr.
UsedCounters == {hwc[i] + 1 : i \in 1..Len(hwc)}

\* C8 as stated: mmcr[0] has MMCR0_PMC1CE set iff counter 1 is in use,
\* MMCR0_PMCjCE set iff one of counters 2..4 is in use, and no other bit; a
\* group on counters 5 and 6 only gives mmcr[0] = 0.
C8_PMCjCE_2to4 ==
    (pc \in {"computed", "disabled"} /\ ~CountConflict(event)) =>
        mmcr[0] = (IF 1 \in UsedCounters THEN MMCR0_PMC1CE ELSE {})
                  \cup (IF UsedCounters \cap (2..4) /= {} THEN MMCR0_PMCjCE ELSE {})

\* C8 amended: MMCR0_PMCjCE is set iff one of counters 2..6 is in use; a
\* group on counters 5 and 6 only gives mmcr[0] = MMCR0_PMCjCE.
C8_PMCjCE_2to6 ==
    (pc \in {"computed", "disabled"} /\ ~CountConflict(event)) =>
        /\ mmcr[0] = (IF 1 \in UsedCounters THEN MMCR0_PMC1CE ELSE {})
                     \cup (IF UsedCounters \cap (2..6) /= {} THEN MMCR0_PMCjCE ELSE {})
        /\ (UsedCounters /= {} /\ UsedCounters \subseteq {5, 6}) => mmcr[0] = MMCR0_PMCjCE

\* A group of PM_RUN_INST_CMPL and PM_RUN_CYC alone: only PMCjCE is set.
C8_Witness ==
    /\ Computed
    /\ UsedCounters = {5, 6}
    /\ mmcr[0] = MMCR0_PMCjCE

\* The bits of MMCR1 holding the selector of counter s (one-based).
SelBits(s) == {b \in WordBits : 8 * (4 - s) <= b /\ b < 8 * (4 - s) + 8}

\* C9 as stated: called with the one-based slot number s, disable_pmc clears
\* exactly the selector field of slot s for s in 1..4 and nothing else, and
\* changes nothing for s > 4.
C9_OneBasedArgument ==
    [][(pc = "computed" /\ pc' = "disabled") =>
        /\ dis_pmc' \in 1..4 => mmcr'[1] = mmcr[1] \ SelBits(dis_pmc')
        /\ dis_pmc' > 4 => mmcr'[1] = mmcr[1]
        /\ mmcr'[0] = mmcr[0] /\ mmcr'[2] = mmcr[2]]_vars

\* C9 amended: called with the zero-based counter index c (the value written
\* to hwc[]), disable_pmc clears exactly the selector field of counter c+1
\* for c in 0..3 and nothing else, and changes nothing for c > 3.
C9_ZeroBasedArgument ==
    [][(pc = "computed" /\ pc' = "disabled") =>
        /\ dis_pmc' \in 0..3 => mmcr'[1] = mmcr[1] \ SelBits(dis_pmc' + 1)
        /\ dis_pmc' > 3 => mmcr'[1] = mmcr[1]
        /\ mmcr'[0] = mmcr[0] /\ mmcr'[2] = mmcr[2]]_vars

\* disable_pmc(1) ran on an image in which an event with a non-zero selector
\* sat on counter 2 (hwc = 1), and that selector field now reads zero.
C9_Witness ==
    /\ pc = "disabled"
    /\ dis_pmc = 1
    /\ \E i \in 1..Len(event) : hwc[i] = 1 /\ EventPsel(event[i]) /= {}
    /\ ReadPsel(mmcr[1], 2) = {}

\* C10: the thresh_ctl of every fabric-match event is in MMCR1[20:27] (bits
\* 36..43) and nothing else is; the threshold control, select and compare
\* fields of MMCRA hold what the other events put there and nothing of the
\* fabric-match events.
C10_FabMatchField ==
    Computed =>
        LET fabs == {i \in 1..Len(event) : event_is_fab_match(event[i])}
            rest == (1..Len(event)) \ fabs
        IN  /\ mmcr[1] \cap (36..43) = UNION {Shl(EventThrCtl(event[i]), 36) : i \in fabs}
            /\ mmcr[2] \cap (8..15) = UNION {Shl(EventThrCtl(event[i]), 8) : i \in rest}
            /\ mmcr[2] \cap (16..18) = UNION {Shl(EventThrSel(event[i]), 16) : i \in rest}
            /\ mmcr[2] \cap (32..41) = UNION {Shl(EventThrCmpW(event[i]), 32) : i \in rest}

---------------------------------------------------------------------------
(* Claims about power8_get_alternatives (checked under SpecAlt).           *)

\* The call has returned.
AltReturned == num_alt /= 0

\* C6: for every event and either value of the run-state-only flag the count
\* n satisfies 1 <= n <= MAX_ALT + 1, only alt[0..n-1] is written, and alt[0]
\* is the input event.
C6_CountBounded ==
    AltReturned =>
        /\ 1 <= num_alt /\ num_alt <= MAX_ALT + 1
        /\ alt[0] = alt_event
        /\ \A k \in 0..(AltCap - 1) : (alt[k] /= Unwritten) <=> k < num_alt

\* PM_RUN_CYC with the run-state-only flag: itself, its table partner and
\* PM_CYC, the full three entries.
C6_Witness ==
    /\ AltReturned
    /\ alt_event = FromInt(\h600f4)
    /\ And(alt_flags, PPMU_ONLY_COUNT_RUN) /= {}
    /\ num_alt = 3
    /\ alt[2] = FromInt(\h1e)

\* The groups of the table found by a full scan.
AltGroups ==
    { {FromInt(EventAlternativeCodes[i][j]) : j \in 1..MAX_ALT} : i \in 1..NumAlternatives }

\* C7: with the run-state-only flag clear the result is the input followed by
\* every other member of its group, without duplicates, when a full scan of
\* the table finds the input in a group, and the input alone otherwise.
C7_AgreesWithFullScan ==
    (AltReturned /\ And(alt_flags, PPMU_ONLY_COUNT_RUN) = {}) =>
        /\ alt[0] = alt_event
        /\ IF \E g \in AltGroups : alt_event \in g
           THEN \E g \in AltGroups :
                    /\ alt_event \in g
                    /\ num_alt = Cardinality(g)
                    /\ {alt[k] : k \in 1..(num_alt - 1)} = g \ {alt_event}
           ELSE num_alt = 1

\* PM_RUN_INST_CMPL (0x500fa), the second member of the last group of the
\* table, with the flag clear: its key 0x400fa was found.
C7_Witness ==
    /\ AltReturned
    /\ alt_event = FromInt(\h500fa)
    /\ And(alt_flags, PPMU_ONLY_COUNT_RUN) = {}
    /\ num_alt = 2
    /\ alt[1] = FromInt(\h400fa)

====
